---- MODULE Spec2Model ----
(***************************************************************************)
(* Model of runner/bin/run.js, the Node launcher of the service registry:  *)
(* it parses --config, resolves host/port/debug, builds the child's        *)
(* environment, picks a Python interpreter, spawns it, relays SIGINT and   *)
(* SIGTERM to it and exits with the child's status.                        *)
(*                                                                         *)
(* Strings are sequences of one-character strings, so that JSON.parse,     *)
(* Number(), String(), toLowerCase() and path.join() are computed, not     *)
(* assumed.  JavaScript values are records [t, s, n]: t is the type tag,   *)
(* s the payload of a string, n the payload of a number or boolean.        *)
(***************************************************************************)
EXTENDS Integers, Sequences, FiniteSets, TLC

\* ------------------------------------------------------------------------
\* Bounds of the model
\* ------------------------------------------------------------------------
\* number of termination signals the launcher may receive in one run
MaxSignals == 2
\* the child's own exit statuses range over 0..MaxExitCode
MaxExitCode == 2

\* ------------------------------------------------------------------------
\* JavaScript values
\* ------------------------------------------------------------------------
Undefined == [t |-> "undefined", s |-> <<>>, n |-> 0]
Null      == [t |-> "null",      s |-> <<>>, n |-> 0]
NaN       == [t |-> "NaN",       s |-> <<>>, n |-> 0]
Str(x)    == [t |-> "string",    s |-> x,    n |-> 0]
Num(k)    == [t |-> "number",    s |-> <<>>, n |-> k]
Bool(b)   == [t |-> "boolean",   s |-> <<>>, n |-> IF b THEN 1 ELSE 0]

\* ToBoolean: undefined, null, NaN, 0, "" and false are falsy
Truthy(v) ==
  CASE v.t = "string"  -> v.s # <<>>
    [] v.t = "number"  -> v.n # 0
    [] v.t = "boolean" -> v.n = 1
    [] OTHER           -> FALSE

\* a || b
Or(a, b) == IF Truthy(a) THEN a ELSE b

\* a ?? b
Nullish(a, b) == IF a.t \in {"undefined", "null"} THEN b ELSE a

Digits == <<"0", "1", "2", "3", "4", "5", "6", "7", "8", "9">>

IsDigit(c) == \E k \in 1..10 : Digits[k] = c

DigitVal(c) == (CHOOSE k \in 1..10 : Digits[k] = c) - 1

RECURSIVE DecimalValue(_)
DecimalValue(s) ==
  IF s = <<>> THEN 0
  ELSE 10 * DecimalValue(SubSeq(s, 1, Len(s) - 1)) + DigitVal(s[Len(s)])

RECURSIVE DecimalString(_)
DecimalString(k) ==
  IF k < 10 THEN <<Digits[k + 1]>>
  ELSE DecimalString(k \div 10) \o <<Digits[(k % 10) + 1]>>

\* Number(v) on the values the launcher meets: the empty string is 0, a run
\* of decimal digits is its value, a string holding a letter is NaN (the
\* strings drawn hold no sign, point, exponent, radix prefix or white space)
Number(v) ==
  CASE v.t = "number"    -> v
    [] v.t = "boolean"   -> Num(v.n)
    [] v.t = "null"      -> Num(0)
    [] v.t = "string"    ->
         IF \A i \in 1..Len(v.s) : IsDigit(v.s[i])
         THEN Num(DecimalValue(v.s)) ELSE NaN
    [] OTHER             -> NaN

\* String(v)
String(v) ==
  CASE v.t = "string"    -> v.s
    [] v.t = "number"    -> DecimalString(v.n)
    [] v.t = "boolean"   -> IF v.n = 1 THEN <<"t", "r", "u", "e">>
                            ELSE <<"f", "a", "l", "s", "e">>
    [] v.t = "NaN"       -> <<"N", "a", "N">>
    [] v.t = "null"      -> <<"n", "u", "l", "l">>
    [] OTHER             -> <<"u", "n", "d", "e", "f", "i", "n", "e", "d">>

\* Boolean(v)
Boolean(v) == Bool(Truthy(v))

Upper == <<"A", "B", "C", "D", "E", "F", "G", "H", "I", "J", "K", "L", "M",
           "N", "O", "P", "Q", "R", "S", "T", "U", "V", "W", "X", "Y", "Z">>
Lower == <<"a", "b", "c", "d", "e", "f", "g", "h", "i", "j", "k", "l", "m",
           "n", "o", "p", "q", "r", "s", "t", "u", "v", "w", "x", "y", "z">>

LowerChar(c) ==
  IF \E k \in 1..26 : Upper[k] = c
  THEN Lower[CHOOSE k \in 1..26 : Upper[k] = c] ELSE c

\* String.prototype.toLowerCase
toLowerCase(s) == [i \in 1..Len(s) |-> LowerChar(s[i])]

\* ------------------------------------------------------------------------
\* JSON.parse on the subset of JSON the model draws: an object whose members
\* are strings without escapes, unsigned integers, true, false or null, or
\* one such scalar at top level; no white space
\* ------------------------------------------------------------------------
Q == "\""

\* position of the first Q at or after i, or 0
RECURSIVE NextQuote(_, _)
NextQuote(s, i) ==
  IF i > Len(s) THEN 0 ELSE IF s[i] = Q THEN i ELSE NextQuote(s, i + 1)

\* first position at or after i that holds no digit
RECURSIVE DigitsEnd(_, _)
DigitsEnd(s, i) ==
  IF i > Len(s) \/ ~IsDigit(s[i]) THEN i ELSE DigitsEnd(s, i + 1)

HasWord(s, i, w) ==
  /\ i + Len(w) - 1 <= Len(s)
  /\ SubSeq(s, i, i + Len(w) - 1) = w

ParseFailure == [ok |-> FALSE, val |-> Undefined, next |-> 0]

\* one scalar starting at position i: [ok, val, next]
ParseScalar(s, i) ==
  IF i > Len(s) THEN ParseFailure
  ELSE IF s[i] = Q THEN
    LET j == NextQuote(s, i + 1) IN
    IF j = 0 THEN ParseFailure
    ELSE [ok |-> TRUE, val |-> Str(SubSeq(s, i + 1, j - 1)), next |-> j + 1]
  ELSE IF IsDigit(s[i]) THEN
    LET j == DigitsEnd(s, i) IN
    IF s[i] = "0" /\ j > i + 1 THEN ParseFailure
    ELSE [ok |-> TRUE, val |-> Num(DecimalValue(SubSeq(s, i, j - 1))), next |-> j]
  ELSE IF HasWord(s, i, <<"t", "r", "u", "e">>) THEN
    [ok |-> TRUE, val |-> Bool(TRUE), next |-> i + 4]
  ELSE IF HasWord(s, i, <<"f", "a", "l", "s", "e">>) THEN
    [ok |-> TRUE, val |-> Bool(FALSE), next |-> i + 5]
  ELSE IF HasWord(s, i, <<"n", "u", "l", "l">>) THEN
    [ok |-> TRUE, val |-> Null, next |-> i + 4]
  ELSE ParseFailure

\* obj with member k set to v (a repeated key keeps the last value)
SetMember(obj, k, v) ==
  [x \in DOMAIN obj \cup {k} |-> IF x = k THEN v ELSE obj[x]]

EmptyObject == [x \in {} |-> Undefined]

ObjectFailure == [ok |-> FALSE, fields |-> EmptyObject]

\* members of an object from position i on, i being the start of a key
RECURSIVE ParseMembers(_, _, _)
ParseMembers(s, i, obj) ==
  IF i > Len(s) \/ s[i] # Q THEN ObjectFailure
  ELSE
    LET j == NextQuote(s, i + 1) IN
    IF j = 0 \/ j + 1 > Len(s) \/ s[j + 1] # ":" THEN ObjectFailure
    ELSE
      LET r == ParseScalar(s, j + 2) IN
      IF ~r.ok \/ r.next > Len(s) THEN ObjectFailure
      ELSE
        LET o2 == SetMember(obj, SubSeq(s, i + 1, j - 1), r.val) IN
        IF s[r.next] = "}" THEN
          IF r.next = Len(s) THEN [ok |-> TRUE, fields |-> o2] ELSE ObjectFailure
        ELSE IF s[r.next] = "," THEN ParseMembers(s, r.next + 1, o2)
        ELSE ObjectFailure

\* JSON.parse(s): [ok, kind, fields]; kind is "object", "null" or
\* "primitive"; ok = FALSE stands for the SyntaxError it throws
JSONparse(s) ==
  IF s = <<>> THEN [ok |-> FALSE, kind |-> "object", fields |-> EmptyObject]
  ELSE IF s[1] = "{" THEN
    IF Len(s) >= 2 /\ s[2] = "}" THEN
      [ok |-> Len(s) = 2, kind |-> "object", fields |-> EmptyObject]
    ELSE
      LET r == ParseMembers(s, 2, EmptyObject) IN
      [ok |-> r.ok, kind |-> "object", fields |-> r.fields]
  ELSE
    LET r == ParseScalar(s, 1) IN
    [ok |-> r.ok /\ r.next = Len(s) + 1,
     kind |-> IF r.val.t = "null" THEN "null" ELSE "primitive",
     fields |-> EmptyObject]

\* ------------------------------------------------------------------------
\* String literals of run.js
\* ------------------------------------------------------------------------
OPT_config == <<"-", "-", "c", "o", "n", "f", "i", "g">>
K_host == <<"h", "o", "s", "t">>
K_port == <<"p", "o", "r", "t">>
K_debug == <<"d", "e", "b", "u", "g">>
K_perplexityApiKey == <<"p", "e", "r", "p", "l", "e", "x", "i", "t", "y", "A", "p", "i", "K", "e", "y">>
K_perplexityModel == <<"p", "e", "r", "p", "l", "e", "x", "i", "t", "y", "M", "o", "d", "e", "l">>
DEFAULT_HOST == <<"1", "2", "7", ".", "0", ".", "0", ".", "1">>
S_true == <<"t", "r", "u", "e">>
S_bin == <<"b", "i", "n">>
S_python == <<"p", "y", "t", "h", "o", "n">>
S_python3 == <<"p", "y", "t", "h", "o", "n", "3">>
HOMEBREW_PY == <<"/", "o", "p", "t", "/", "h", "o", "m", "e", "b", "r", "e", "w", "/", "b", "i", "n", "/", "p", "y", "t", "h", "o", "n", "3">>
USRLOCAL_PY == <<"/", "u", "s", "r", "/", "l", "o", "c", "a", "l", "/", "b", "i", "n", "/", "p", "y", "t", "h", "o", "n", "3">>
USRBIN_PY == <<"/", "u", "s", "r", "/", "b", "i", "n", "/", "p", "y", "t", "h", "o", "n", "3">>
DEFAULT_PORT == 7001

\* path.delimiter on POSIX
Delimiter == <<":">>

\* repoRoot = path.resolve(__dirname, "..", ".."): fixed by where the
\* package is installed
repoRoot == <<"/", "r">>

\* the fixed list of step 3
candidates == <<HOMEBREW_PY, USRLOCAL_PY, USRBIN_PY>>

\* ------------------------------------------------------------------------
\* Functions of run.js
\* ------------------------------------------------------------------------
\* argv.indexOf(x), 0-based, -1 when absent
indexOf(a, x) ==
  IF \E k \in 1..Len(a) : a[k] = x
  THEN (CHOOSE k \in 1..Len(a) : a[k] = x /\ \A m \in 1..(k - 1) : a[m] # x) - 1
  ELSE -1

EmptyConfig == [kind |-> "object", fields |-> EmptyObject]

\* parseConfigArg that treats a missing --config value as an error
parseConfigArg_required(a) ==
  LET i == indexOf(a, OPT_config) IN
  IF i # -1 /\ i + 2 <= Len(a) /\ a[i + 2] # <<>> THEN
    LET r == JSONparse(a[i + 2]) IN
    IF r.ok THEN [exit |-> FALSE, cfg |-> [kind |-> r.kind, fields |-> r.fields]]
    ELSE [exit |-> TRUE, cfg |-> EmptyConfig]
  ELSE [exit |-> TRUE, cfg |-> EmptyConfig]

\* parseConfigArg(argv): [exit, cfg]; exit = TRUE is process.exit(1)
parseConfigArg(a) ==
  LET i == indexOf(a, OPT_config) IN
  IF i # -1 /\ i + 2 <= Len(a) /\ a[i + 2] # <<>> THEN
    LET r == JSONparse(a[i + 2]) IN
    IF r.ok THEN [exit |-> FALSE, cfg |-> [kind |-> r.kind, fields |-> r.fields]]
    ELSE [exit |-> TRUE, cfg |-> EmptyConfig]
  ELSE [exit |-> FALSE, cfg |-> EmptyConfig]

\* cfg.k for a cfg that is not null
Get(c, k) == IF k \in DOMAIN c.fields THEN c.fields[k] ELSE Undefined

\* process.env.NAME
EnvGet(e, name) == IF name \in DOMAIN e THEN Str(e[name]) ELSE Undefined

\* { ...e, name: v } and process.env.name = v
EnvSet(e, name, v) ==
  [x \in DOMAIN e \cup {name} |-> IF x = name THEN v ELSE e[x]]

\* fs.existsSync(p) && fs.statSync(p).isFile(), p a string
IsFile(f, p) == p \in DOMAIN f /\ f[p] \in {"file", "xfile"}

\* isExec(p), p a JavaScript value, as a boolean
isExec(f, p) == Truthy(p) /\ IsFile(f, p.s)

\* path.join(a, b) for a non-empty a and a single segment b
pathJoin(a, b) ==
  IF a[Len(a)] = "/" THEN a \o b ELSE a \o <<"/">> \o b

\* first element of the sequence t that satisfies isExec, or undefined
RECURSIVE find(_, _)
find(f, t) ==
  IF t = <<>> THEN Undefined
  ELSE IF isExec(f, t[1]) THEN t[1] ELSE find(f, Tail(t))

\* resolvePython(): declared in run.js and called nowhere
resolvePython(e, f) ==
  LET override == EnvGet(e, "PYTHON_BIN")
      venv == EnvGet(e, "VIRTUAL_ENV")
      pyVenv == Str(pathJoin(pathJoin(venv.s, S_bin), S_python))
      pyVenv3 == Str(pathJoin(pathJoin(venv.s, S_bin), S_python3))
      c == find(f, [k \in 1..Len(candidates) |-> Str(candidates[k])])
  IN IF isExec(f, override) THEN override
     ELSE IF Truthy(venv) /\ isExec(f, pyVenv) THEN pyVenv
     ELSE IF Truthy(venv) /\ isExec(f, pyVenv3) THEN pyVenv3
     ELSE IF c.t = "string" THEN c
     ELSE Null

\* host when a key the launcher does not know, x, is read as well
hostOf_alias(c, e) ==
  Or(Or(Or(Get(c, K_host), Get(c, <<"x">>)), EnvGet(e, "SERVICE_REGISTRY_HOST")),
     Str(DEFAULT_HOST))

\* the value of host at line 70
hostOf(c, e) ==
  Or(Or(Get(c, K_host), EnvGet(e, "SERVICE_REGISTRY_HOST")), Str(DEFAULT_HOST))

\* the value of port at line 71
portOf(c, e) ==
  Number(Or(Or(Get(c, K_port), EnvGet(e, "SERVICE_REGISTRY_PORT")), Num(DEFAULT_PORT)))

\* the value of debug at line 72; === binds tighter than ??
debugOf(c, e) ==
  Boolean(Nullish(Get(c, K_debug),
    Bool(toLowerCase(Or(EnvGet(e, "SERVICE_REGISTRY_DEBUG"), Str(<<>>)).s) = S_true)))

\* process.env after lines 75-76
passthrough(c, e) ==
  LET e1 == IF Truthy(Get(c, K_perplexityApiKey))
            THEN EnvSet(e, "PERPLEXITY_API_KEY", String(Get(c, K_perplexityApiKey)))
            ELSE e
  IN IF Truthy(Get(c, K_perplexityModel))
     THEN EnvSet(e1, "PERPLEXITY_MODEL", String(Get(c, K_perplexityModel)))
     ELSE e1

\* [repoRoot, process.env.PYTHONPATH || ""].filter(Boolean).join(path.delimiter)
pythonPath(e) ==
  LET inherited == Or(EnvGet(e, "PYTHONPATH"), Str(<<>>)) IN
  IF Truthy(inherited) THEN repoRoot \o Delimiter \o inherited.s ELSE repoRoot

\* the object literal of lines 82-88
buildEnv(e, h, p, d) ==
  EnvSet(EnvSet(EnvSet(EnvSet(e,
    "SERVICE_REGISTRY_HOST", String(h)),
    "SERVICE_REGISTRY_PORT", String(p)),
    "SERVICE_REGISTRY_DEBUG", String(d)),
    "PYTHONPATH", pythonPath(e))

\* tries with the well-known paths ahead of the virtual environment
tries_systemFirst(e) ==
  LET venv == EnvGet(e, "VIRTUAL_ENV")
      v == IF Truthy(venv)
           THEN <<Str(pathJoin(pathJoin(venv.s, S_bin), S_python)),
                  Str(pathJoin(pathJoin(venv.s, S_bin), S_python3))>>
           ELSE <<>>
  IN <<Str(HOMEBREW_PY), Str(USRLOCAL_PY), Str(USRBIN_PY)>> \o v

\* the list tries of lines 96-102
tries(e) ==
  LET venv == EnvGet(e, "VIRTUAL_ENV")
      v == IF Truthy(venv)
           THEN <<Str(pathJoin(pathJoin(venv.s, S_bin), S_python)),
                  Str(pathJoin(pathJoin(venv.s, S_bin), S_python3))>>
           ELSE <<>>
  IN v \o <<Str(HOMEBREW_PY), Str(USRLOCAL_PY), Str(USRBIN_PY)>>

\* PY_BIN when the search runs first and PYTHON_BIN is the last resort
resolvePY_BIN_searchFirst(e, f) ==
  LET found == Or(find(f, tries(e)), Null) IN
  IF ~Truthy(found) THEN Or(EnvGet(e, "PYTHON_BIN"), Null) ELSE found

\* PY_BIN when a search that found nothing goes on to look python3 up in
\* the directory PATH names
resolvePY_BIN_withPath(e, f) ==
  LET first == Or(EnvGet(e, "PYTHON_BIN"), Null)
      found == IF ~Truthy(first) THEN Or(find(f, tries(e)), Null) ELSE first
      which == IF Truthy(EnvGet(e, "PATH"))
               THEN Str(pathJoin(e["PATH"], S_python3)) ELSE Null
  IN IF ~Truthy(found) /\ isExec(f, which) THEN which ELSE found

\* PY_BIN after lines 91-104
resolvePY_BIN(e, f) ==
  LET first == Or(EnvGet(e, "PYTHON_BIN"), Null) IN
  IF ~Truthy(first) THEN Or(find(f, tries(e)), Null) ELSE first

\* code || 1 in place of code ?? 0
exitStatusOf_or(code) == Or(code, Num(1)).n

\* code ?? 0 of the exit handler
exitStatusOf(code) == Nullish(code, Num(0)).n

\* ------------------------------------------------------------------------
\* Inputs of a run: the argument list, the inherited environment and the
\* file system
\* ------------------------------------------------------------------------
Quoted(x) == <<Q>> \o x \o <<Q>>

Member(k, text) == Quoted(k) \o <<":">> \o text

RECURSIVE JoinComma(_)
JoinComma(ms) ==
  IF ms = <<>> THEN <<>>
  ELSE IF Len(ms) = 1 THEN ms[1]
  ELSE ms[1] \o <<",">> \o JoinComma(Tail(ms))

Present(m) == m # <<>>

\* the text of an object; an empty member text stands for an absent member
ObjectText(ms) == <<"{">> \o JoinComma(SelectSeq(ms, Present)) \o <<"}">>

HostMembers == {<<>>, Member(K_host, Quoted(<<>>)), Member(K_host, Quoted(<<"c", "h">>))}

PortMembers == {<<>>, Member(K_port, <<"0">>), Member(K_port, <<"9", "0">>),
                Member(K_port, Quoted(<<"a">>))}

DebugMembers == {<<>>, Member(K_debug, <<"t", "r", "u", "e">>),
                 Member(K_debug, <<"f", "a", "l", "s", "e">>)}

KeyMembers == {<<>>, Member(K_perplexityApiKey, Quoted(<<"k">>)),
               Member(K_perplexityApiKey, Quoted(<<>>))}

ModelMembers == {<<>>, Member(K_perplexityModel, Quoted(<<"m">>))}

ExtraMembers == {<<>>, Member(<<"x">>, <<"1">>)}

ArgvPrefix == <<<<"n", "o", "d", "e">>, <<"r", "u", "n", ".", "j", "s">>>>

ArgvOf(payload) == ArgvPrefix \o <<OPT_config, payload>>

\* well-formed objects over the three resolved fields
FieldPayloads ==
  {ObjectText(<<h, p, d>>) : h \in HostMembers, p \in PortMembers, d \in DebugMembers}

\* well-formed objects over the passthrough fields and an unrecognized key
PassPayloads ==
  {ObjectText(<<Member(K_port, <<"9", "0">>), k, m, x>>) :
     k \in KeyMembers, m \in ModelMembers, x \in ExtraMembers}

\* texts that are not JSON
MalformedPayloads ==
  {<<"{">>, <<"{", Q, "p", Q, ":", "}">>, <<"{", "}", "x">>, <<"a">>}

\* JSON that is no object
ScalarPayloads == {<<"n", "u", "l", "l">>, <<"5">>}

\* argument lists without a usable payload: no option, option last, option
\* followed by the empty string
BareArgvs == {ArgvPrefix, ArgvPrefix \o <<OPT_config>>, ArgvOf(<<>>)}

EnvNames == {"SERVICE_REGISTRY_HOST", "SERVICE_REGISTRY_PORT", "SERVICE_REGISTRY_DEBUG",
             "PYTHON_BIN", "VIRTUAL_ENV", "PYTHONPATH", "PERPLEXITY_API_KEY", "HOME"}

Unset == <<>>

\* an environment from options: <<>> leaves the name unset, <<v>> sets it
MkEnv(o) == [x \in {y \in DOMAIN o : o[y] # Unset} |-> o[x][1]]

EnvOf(h, p, d, pb, ve, pp, key) ==
  MkEnv([x \in EnvNames |->
    CASE x = "SERVICE_REGISTRY_HOST"  -> h
      [] x = "SERVICE_REGISTRY_PORT"  -> p
      [] x = "SERVICE_REGISTRY_DEBUG" -> d
      [] x = "PYTHON_BIN"             -> pb
      [] x = "VIRTUAL_ENV"            -> ve
      [] x = "PYTHONPATH"             -> pp
      [] x = "PERPLEXITY_API_KEY"     -> key
      [] OTHER                        -> <<<<"/", "h">>>>])

HostVars == {Unset, <<<<>>>>, <<<<"e", "h">>>>}

PortVars == {Unset, <<<<"8", "0">>>>, <<<<"b">>>>}

DebugVars == {Unset, <<<<"T", "R", "U", "E">>>>, <<<<"f", "a", "l", "s", "e">>>>}

OVERRIDE_PATH == <<"/", "p">>

VENV_DIR == <<"/", "v">>

PythonBinVars == {Unset, <<<<>>>>, <<OVERRIDE_PATH>>}

VirtualEnvVars == {Unset, <<<<>>>>, <<VENV_DIR>>}

PythonPathVars == {Unset, <<<<"/", "x">>>>}

VENV_PY == pathJoin(pathJoin(VENV_DIR, S_bin), S_python)

VENV_PY3 == pathJoin(pathJoin(VENV_DIR, S_bin), S_python3)

ProbePaths == {OVERRIDE_PATH, VENV_PY, VENV_PY3, HOMEBREW_PY, USRLOCAL_PY, USRBIN_PY}

\* what a path is: nothing, a directory, a regular file, a regular file
\* with the execute bit
Kinds == {"none", "dir", "file", "xfile"}

NoFiles == [x \in ProbePaths |-> "none"]

\* every file system over the probed paths in which the paths of `varied`
\* take any of the kinds ks and the others do not exist
FileSystems(varied, ks) ==
  {[x \in ProbePaths |-> IF x \in varied THEN g[x] ELSE "none"] : g \in [varied -> ks]}

\* runs that vary the configuration and the three variables it falls back
\* to, with an override that names an executable file or nothing
ConfigInputs ==
  {[argv |-> ArgvOf(c), env |-> EnvOf(h, p, d, pb, Unset, Unset, Unset), fs |-> f] :
     c \in FieldPayloads, h \in HostVars, p \in PortVars, d \in DebugVars,
     pb \in {<<OVERRIDE_PATH>>},
     f \in FileSystems({OVERRIDE_PATH}, {"none", "xfile"})}

PassInputs ==
  {[argv |-> a, env |-> EnvOf(Unset, <<<<"8", "0">>>>, Unset, <<OVERRIDE_PATH>>, Unset, pp, key),
    fs |-> f] :
     a \in {ArgvOf(c) : c \in PassPayloads \cup MalformedPayloads \cup ScalarPayloads}
           \cup BareArgvs,
     pp \in PythonPathVars, key \in {Unset, <<<<"o">>>>},
     f \in FileSystems({OVERRIDE_PATH}, {"none", "xfile"})}

\* runs that vary the interpreter search
ResolveInputs ==
  {[argv |-> a, env |-> EnvOf(Unset, Unset, Unset, pb, ve, Unset, Unset), fs |-> f] :
     a \in {ArgvPrefix},
     pb \in PythonBinVars, ve \in VirtualEnvVars,
     f \in FileSystems(ProbePaths, {"none", "dir", "xfile"})
           \cup FileSystems({OVERRIDE_PATH, VENV_PY, USRBIN_PY}, Kinds)}

\* runs without the --config option, over the three variables the
\* defaults fall back to
BareInputs ==
  {[argv |-> ArgvPrefix, env |-> EnvOf(h, p, d, <<OVERRIDE_PATH>>, Unset, Unset, key), fs |-> f] :
     h \in HostVars, p \in PortVars, d \in DebugVars, key \in {Unset, <<<<"o">>>>},
     f \in FileSystems({OVERRIDE_PATH}, {"none", "xfile"})}

\* runs in which no interpreter can be found, whatever the configuration
NoInterpreterInputs ==
  {[argv |-> ArgvOf(c), env |-> EnvOf(Unset, Unset, Unset, Unset, ve, Unset, Unset),
    fs |-> NoFiles] :
     c \in PassPayloads \cup MalformedPayloads \cup {<<>>}, ve \in VirtualEnvVars}

PATH_DIR == <<"/", "q">>

\* where `command -v python3` finds an interpreter when PATH is PATH_DIR
PATH_PY == pathJoin(PATH_DIR, S_python3)

\* runs in which PATH leads to an interpreter that is none of the probed
\* paths
PathInputs ==
  {[argv |-> ArgvPrefix,
    env |-> EnvSet(EnvOf(Unset, Unset, Unset, pb, ve, Unset, Unset), "PATH", PATH_DIR),
    fs |-> [x \in ProbePaths \cup {PATH_PY} |-> IF x = PATH_PY THEN "xfile" ELSE g[x]]] :
     pb \in PythonBinVars, ve \in VirtualEnvVars,
     g \in FileSystems({OVERRIDE_PATH, VENV_PY3, USRLOCAL_PY}, {"none", "xfile"})}

Inputs == ConfigInputs \cup PassInputs \cup ResolveInputs \cup BareInputs
          \cup NoInterpreterInputs \cup PathInputs

\* ------------------------------------------------------------------------
\* State
\* ------------------------------------------------------------------------
VARIABLES
  argv,          \* process.argv
  processEnv,    \* process.env
  startEnv,      \* process.env as the launcher inherited it
  fs,            \* kind of each probed path
  pc,            \* position of the top-level script
  cfg,           \* const cfg
  host,          \* const host
  port,          \* const port
  debug,         \* const debug
  env,           \* const env, the mapping handed to spawn
  PY_BIN,        \* let PY_BIN
  childState,    \* "none", "failed", "running" or "dead"
  childCode,     \* the code the child's exit event carries
  childSignals,  \* signals delivered to the child by child.kill
  received,      \* signals the launcher has received, in order
  exitCode       \* the launcher's exit status, -1 while it runs

vars == <<argv, processEnv, startEnv, fs, pc, cfg, host, port, debug, env,
          PY_BIN, childState, childCode, childSignals, received, exitCode>>

inputs == <<argv, startEnv, fs>>

Signals == {"SIGINT", "SIGTERM"}

\* the state at line 67 of a run whose inputs are drawn from I
InitOver(I) ==
  /\ \E in \in I :
       /\ argv = in.argv
       /\ processEnv = in.env
       /\ startEnv = in.env
       /\ fs = in.fs
  /\ pc = "parse"
  /\ cfg = EmptyConfig
  /\ host = Undefined
  /\ port = Undefined
  /\ debug = Undefined
  /\ env = [x \in {} |-> <<>>]
  /\ PY_BIN = Null
  /\ childState = "none"
  /\ childCode = Null
  /\ childSignals = <<>>
  /\ received = <<>>
  /\ exitCode = -1

Init == InitOver(Inputs)

\* process.exit(status), also the exit after an uncaught exception
Exit(status) ==
  /\ pc' = "exited"
  /\ exitCode' = status

\* line 67, parseConfigArg returns
ParseConfig ==
  /\ pc = "parse"
  /\ ~parseConfigArg(argv).exit
  /\ cfg' = parseConfigArg(argv).cfg
  /\ pc' = "defaults"
  /\ UNCHANGED <<inputs, processEnv, host, port, debug, env, PY_BIN,
                 childState, childCode, childSignals, received, exitCode>>

\* line 67, parseConfigArg reaches process.exit(1)
ParseConfigInvalid ==
  /\ pc = "parse"
  /\ parseConfigArg(argv).exit
  /\ Exit(1)
  /\ UNCHANGED <<inputs, processEnv, cfg, host, port, debug, env, PY_BIN,
                 childState, childCode, childSignals, received>>

\* lines 70-72
Defaults ==
  /\ pc = "defaults"
  /\ cfg.kind # "null"
  /\ host' = hostOf(cfg, processEnv)
  /\ port' = portOf(cfg, processEnv)
  /\ debug' = debugOf(cfg, processEnv)
  /\ pc' = "passthrough"
  /\ UNCHANGED <<inputs, processEnv, cfg, env, PY_BIN,
                 childState, childCode, childSignals, received, exitCode>>

\* line 70 when cfg is null: cfg.host throws a TypeError nobody catches
DefaultsThrow ==
  /\ pc = "defaults"
  /\ cfg.kind = "null"
  /\ Exit(1)
  /\ UNCHANGED <<inputs, processEnv, cfg, host, port, debug, env, PY_BIN,
                 childState, childCode, childSignals, received>>

\* lines 75-76
Passthrough ==
  /\ pc = "passthrough"
  /\ processEnv' = passthrough(cfg, processEnv)
  /\ pc' = "env"
  /\ UNCHANGED <<inputs, cfg, host, port, debug, env, PY_BIN,
                 childState, childCode, childSignals, received, exitCode>>

\* lines 79-88
BuildEnv ==
  /\ pc = "env"
  /\ env' = buildEnv(processEnv, host, port, debug)
  /\ pc' = "resolve"
  /\ UNCHANGED <<inputs, processEnv, cfg, host, port, debug, PY_BIN,
                 childState, childCode, childSignals, received, exitCode>>

\* lines 91-104
Resolve ==
  /\ pc = "resolve"
  /\ PY_BIN' = resolvePY_BIN(processEnv, fs)
  /\ pc' = "guard"
  /\ UNCHANGED <<inputs, processEnv, cfg, host, port, debug, env,
                 childState, childCode, childSignals, received, exitCode>>

\* lines 107-113
NotFound ==
  /\ pc = "guard"
  /\ ~Truthy(PY_BIN)
  /\ Exit(127)
  /\ UNCHANGED <<inputs, processEnv, cfg, host, port, debug, env, PY_BIN,
                 childState, childCode, childSignals, received>>

\* lines 115-125 when the operating system can execute PY_BIN: the child
\* runs and the three handlers are registered
Spawn ==
  /\ pc = "guard"
  /\ Truthy(PY_BIN)
  /\ PY_BIN.s \in DOMAIN fs /\ fs[PY_BIN.s] = "xfile"
  /\ childState' = "running"
  /\ pc' = "running"
  /\ UNCHANGED <<inputs, processEnv, cfg, host, port, debug, env, PY_BIN,
                 childCode, childSignals, received, exitCode>>

\* lines 115-125 when it cannot (ENOENT, EACCES): the child emits 'error',
\* run.js registers no listener for it, and Node ends the launcher with
\* status 1
SpawnError ==
  /\ pc = "guard"
  /\ Truthy(PY_BIN)
  /\ ~(PY_BIN.s \in DOMAIN fs /\ fs[PY_BIN.s] = "xfile")
  /\ childState' = "failed"
  /\ Exit(1)
  /\ UNCHANGED <<inputs, processEnv, cfg, host, port, debug, env, PY_BIN,
                 childCode, childSignals, received>>

\* the handler with child.kill() in place of child.kill(sig): the child
\* gets SIGTERM whatever the launcher received
OnSignal_defaultKill(sig) ==
  /\ pc = "running"
  /\ Len(received) < MaxSignals
  /\ received' = Append(received, sig)
  /\ childSignals' = IF childState = "running"
                     THEN Append(childSignals, "SIGTERM") ELSE childSignals
  /\ UNCHANGED <<inputs, processEnv, cfg, host, port, debug, env, PY_BIN,
                 pc, childState, childCode, exitCode>>

\* the handler without its try/catch, on a child.kill that throws for a
\* child that is gone: the exception ends the launcher with status 1
OnSignal_noCatch(sig) ==
  /\ pc = "running"
  /\ Len(received) < MaxSignals
  /\ received' = Append(received, sig)
  /\ IF childState = "running"
     THEN /\ childSignals' = Append(childSignals, sig)
          /\ UNCHANGED <<pc, exitCode>>
     ELSE /\ childSignals' = childSignals
          /\ Exit(1)
  /\ UNCHANGED <<inputs, processEnv, cfg, host, port, debug, env, PY_BIN,
                 childState, childCode>>

\* line 124: the handler of sig runs; child.kill(sig) delivers sig to a
\* live child and does nothing to one that is gone
OnSignal(sig) ==
  /\ pc = "running"
  /\ Len(received) < MaxSignals
  /\ received' = Append(received, sig)
  /\ childSignals' = IF childState = "running"
                     THEN Append(childSignals, sig) ELSE childSignals
  /\ UNCHANGED <<inputs, processEnv, cfg, host, port, debug, env, PY_BIN,
                 pc, childState, childCode, exitCode>>

\* the child ends on its own with status c
ChildExits(c) ==
  /\ childState = "running"
  /\ childState' = "dead"
  /\ childCode' = Num(c)
  /\ UNCHANGED <<inputs, processEnv, cfg, host, port, debug, env, PY_BIN,
                 pc, childSignals, received, exitCode>>

\* the child is ended by a signal: its exit event carries code null
ChildKilled ==
  /\ childState = "running"
  /\ childState' = "dead"
  /\ childCode' = Null
  /\ UNCHANGED <<inputs, processEnv, cfg, host, port, debug, env, PY_BIN,
                 pc, childSignals, received, exitCode>>

\* an exit handler that starts the child again instead of exiting
OnExit_restart ==
  /\ pc = "running"
  /\ childState = "dead"
  /\ childState' = "running"
  /\ childCode' = Null
  /\ UNCHANGED <<inputs, processEnv, cfg, host, port, debug, env, PY_BIN,
                 pc, childSignals, received, exitCode>>

\* line 125: the exit handler
OnExit ==
  /\ pc = "running"
  /\ childState = "dead"
  /\ Exit(exitStatusOf(childCode))
  /\ UNCHANGED <<inputs, processEnv, cfg, host, port, debug, env, PY_BIN,
                 childState, childCode, childSignals, received>>

Next ==
  \/ ParseConfig
  \/ ParseConfigInvalid
  \/ Defaults
  \/ DefaultsThrow
  \/ Passthrough
  \/ BuildEnv
  \/ Resolve
  \/ NotFound
  \/ Spawn
  \/ SpawnError
  \/ \E sig \in Signals : OnSignal(sig)
  \/ \E c \in 0..MaxExitCode : ChildExits(c)
  \/ ChildKilled
  \/ OnExit

Spec == Init /\ [][Next]_vars

\* the runs the supervision of the child is checked on: every kind of
\* argument list, with and without an interpreter
FairInputs == PassInputs \cup NoInterpreterInputs

FairInit == InitOver(FairInputs)

\* Node's event loop runs the listener of the child's exit event once the
\* child has ended
FairSpec == FairInit /\ [][Next]_vars /\ WF_vars(OnExit)

TypeOK ==
  /\ pc \in {"parse", "defaults", "passthrough", "env", "resolve", "guard",
             "running", "exited"}
  /\ childState \in {"none", "failed", "running", "dead"}
  /\ Len(received) <= MaxSignals
  /\ exitCode \in {-1, 0, 1, 127} \cup 0..MaxExitCode

\* ------------------------------------------------------------------------
\* Vocabulary of the properties
\* ------------------------------------------------------------------------
Has(k) == k \in DOMAIN cfg.fields

\* the variable is set to a non-empty value in the inherited environment
VarSet(name) == name \in DOMAIN startEnv /\ startEnv[name] # <<>>

AllDigits(x) == x # <<>> /\ \A i \in 1..Len(x) : IsDigit(x[i])

\* const env has been built
EnvBuilt == "SERVICE_REGISTRY_PORT" \in DOMAIN env

\* spawn has been called
SpawnCalled == childState # "none"

\* the --config option is followed by a value
ConfigGiven == indexOf(argv, OPT_config) # -1 /\ indexOf(argv, OPT_config) + 2 <= Len(argv)

ConfigText == argv[indexOf(argv, OPT_config) + 2]

\* the run got past parsing and past the reading of cfg
ConfigAccepted == ~parseConfigArg(argv).exit /\ parseConfigArg(argv).cfg.kind # "null"

\* the six candidates of the search, as strings; an unset variable
\* contributes none
OverrideCandidate ==
  IF "PYTHON_BIN" \in DOMAIN startEnv THEN {startEnv["PYTHON_BIN"]} ELSE {}

VenvCandidates ==
  IF VarSet("VIRTUAL_ENV")
  THEN {startEnv["VIRTUAL_ENV"] \o <<"/", "b", "i", "n", "/", "p", "y", "t", "h", "o", "n">>,
        startEnv["VIRTUAL_ENV"] \o <<"/", "b", "i", "n", "/", "p", "y", "t", "h", "o", "n", "3">>}
  ELSE {}

WellKnown == {HOMEBREW_PY, USRLOCAL_PY, USRBIN_PY}

RegularFile(x) == x \in DOMAIN fs /\ fs[x] \in {"file", "xfile"}

\* ------------------------------------------------------------------------
\* Properties
\* ------------------------------------------------------------------------
ExpectedHost ==
  IF Has(K_host) THEN cfg.fields[K_host].s
  ELSE IF VarSet("SERVICE_REGISTRY_HOST") THEN startEnv["SERVICE_REGISTRY_HOST"]
  ELSE <<"1", "2", "7", ".", "0", ".", "0", ".", "1">>

ExpectedPort ==
  IF Has(K_port) THEN DecimalString(cfg.fields[K_port].n)
  ELSE IF VarSet("SERVICE_REGISTRY_PORT") THEN startEnv["SERVICE_REGISTRY_PORT"]
  ELSE <<"7", "0", "0", "1">>

ExpectedDebug ==
  LET yes == <<"t", "r", "u", "e">>
      no == <<"f", "a", "l", "s", "e">>
  IN IF Has(K_debug) THEN (IF cfg.fields[K_debug].n = 1 THEN yes ELSE no)
     ELSE IF VarSet("SERVICE_REGISTRY_DEBUG")
          THEN (IF toLowerCase(startEnv["SERVICE_REGISTRY_DEBUG"]) = yes THEN yes ELSE no)
     ELSE no

\* host is a string, port a number and debug a boolean where the config has
\* them, and the port variable, where set, is a digit string
WellTypedInputs ==
  /\ cfg.kind = "object"
  /\ Has(K_host) => cfg.fields[K_host].t = "string"
  /\ Has(K_port) => cfg.fields[K_port].t = "number"
  /\ Has(K_debug) => cfg.fields[K_debug].t = "boolean"
  /\ VarSet("SERVICE_REGISTRY_PORT") => AllDigits(startEnv["SERVICE_REGISTRY_PORT"])

\* C1: for a valid config object, each of host, port and debug in the
\* child's environment is the config's value when the config has the field
\* (port 0, host "" and debug false included), else the environment
\* variable, else the default 127.0.0.1, 7001, false.
C1_ConfigPrecedence ==
  (EnvBuilt /\ WellTypedInputs) =>
    /\ env["SERVICE_REGISTRY_HOST"] = ExpectedHost
    /\ env["SERVICE_REGISTRY_PORT"] = ExpectedPort
    /\ env["SERVICE_REGISTRY_DEBUG"] = ExpectedDebug

\* C2: a --config value that is present and is not valid JSON, the empty
\* string included, ends the run with status 1 at parsing: no later stage
\* runs and no child is spawned.
C2_MalformedConfigIsFatal ==
  (ConfigGiven /\ ~JSONparse(ConfigText).ok) =>
    /\ pc \in {"parse", "exited"}
    /\ pc = "exited" => exitCode = 1
    /\ ~SpawnCalled

\* C3: when no candidate of the search (PYTHON_BIN, the two paths under
\* VIRTUAL_ENV, the three well-known paths) is an existing regular file,
\* spawn is never called and a run that got past the configuration exits
\* with status 127.
C3_NoCandidateExits127 ==
  (\A x \in OverrideCandidate \cup VenvCandidates \cup WellKnown : ~RegularFile(x)) =>
    /\ ~SpawnCalled
    /\ (pc = "exited" /\ ConfigAccepted) => exitCode = 127

\* C4: whenever spawn has been called, the path handed to it is one for
\* which isExec holds.
C4_SpawnedPathWasChecked ==
  SpawnCalled => isExec(fs, PY_BIN)

OverrideValid ==
  /\ "PYTHON_BIN" \in DOMAIN startEnv
  /\ startEnv["PYTHON_BIN"] \in DOMAIN fs
  /\ fs[startEnv["PYTHON_BIN"]] = "xfile"

\* C5: when PYTHON_BIN names an existing executable file, the interpreter
\* resolved and spawned is that path, whatever VIRTUAL_ENV is and whatever
\* other candidates exist, and the search does not fail.
C5_OverrideWins ==
  OverrideValid =>
    /\ (pc = "guard" \/ SpawnCalled) => PY_BIN = Str(startEnv["PYTHON_BIN"])
    /\ SpawnCalled => childState # "failed"
    /\ exitCode # 127

C5_Witness ==
  /\ OverrideValid
  /\ childState = "running"
  /\ VarSet("VIRTUAL_ENV")
  /\ \A x \in VenvCandidates \cup WellKnown : fs[x] = "xfile"

VenvPython == startEnv["VIRTUAL_ENV"] \o <<"/", "b", "i", "n", "/", "p", "y", "t", "h", "o", "n">>

\* C6: when PYTHON_BIN is unset, VIRTUAL_ENV is set and VIRTUAL_ENV/bin/python
\* is a regular file, the resolved interpreter is VIRTUAL_ENV/bin/python even
\* if well-known paths hold a valid binary too.
C6_VenvBeatsSystem ==
  ("PYTHON_BIN" \notin DOMAIN startEnv /\ VarSet("VIRTUAL_ENV") /\ RegularFile(VenvPython)) =>
    /\ (pc = "guard" \/ SpawnCalled) => PY_BIN = Str(VenvPython)
    /\ exitCode # 127

C6_Witness ==
  /\ "PYTHON_BIN" \notin DOMAIN startEnv
  /\ VarSet("VIRTUAL_ENV")
  /\ fs[VenvPython] = "xfile"
  /\ \A x \in WellKnown : fs[x] = "xfile"
  /\ childState = "running"
  /\ PY_BIN = Str(VenvPython)

\* C7: once the child has been spawned and has ended, the launcher exits
\* with the child's status code c, and with 0 when the child was ended by a
\* signal and has no status code.
C7_ExitStatusRelayed ==
  (pc = "exited" /\ childState = "dead") =>
    exitCode = (IF childCode.t = "null" THEN 0 ELSE childCode.n)

C7_Witness ==
  /\ pc = "exited"
  /\ childState = "dead"
  /\ childCode.t = "number" /\ childCode.n > 0
  /\ exitCode = childCode.n

\* C8: while the child runs, a SIGINT or SIGTERM received by the launcher
\* is sent on to the child as the same signal and changes nothing else of
\* the launcher, which does not exit; after spawn the launcher exits only
\* in a step taken when the child has ended.
C8_SignalRelay ==
  /\ [][(received' # received /\ childState = "running") =>
          /\ received' = Append(received, received'[Len(received')])
          /\ received'[Len(received')] \in Signals
          /\ childSignals' = Append(childSignals, received'[Len(received')])
          /\ UNCHANGED <<pc, exitCode, processEnv, env, PY_BIN, childState, childCode>>]_vars
  /\ [][(pc = "running" /\ pc' # "running") => childState = "dead"]_vars

C8_Witness ==
  /\ pc = "running"
  /\ childState = "running"
  /\ received = <<"SIGINT", "SIGTERM">>
  /\ childSignals = received

\* C9: a resolved port that is not numeric is fatal before spawn: spawn is
\* never called with it and the string NaN is never the port of the child's
\* environment.
C9_NonNumericPortIsFatal ==
  /\ port.t = "NaN" => ~SpawnCalled
  /\ EnvBuilt => env["SERVICE_REGISTRY_PORT"] # <<"N", "a", "N">>

\* C10: the launcher's own environment stays what it inherited; the
\* variables it produces exist on the child's mapping only.
C10_ParentEnvUntouched ==
  processEnv = startEnv

Overlaid == {"SERVICE_REGISTRY_HOST", "SERVICE_REGISTRY_PORT", "SERVICE_REGISTRY_DEBUG",
             "PYTHONPATH"}

\* the child's variable `name` is the config's field k when the config has
\* it, and the inherited variable, set or unset, when it has not
PassedThrough(name, k) ==
  IF Has(k) THEN name \in DOMAIN env /\ env[name] = String(cfg.fields[k])
  ELSE IF name \in DOMAIN startEnv
       THEN name \in DOMAIN env /\ env[name] = startEnv[name]
       ELSE name \notin DOMAIN env

\* C11: the child's environment is the inherited one overlaid with the
\* three resolved values as strings, PYTHONPATH = repository root, then the
\* delimiter and the inherited PYTHONPATH when there is one, and each
\* passthrough variable set to the config's value when the config has the
\* field; all other variables, and the passthrough variables of absent
\* fields, are the inherited ones.
C11_ChildEnvIsOverlay ==
  (EnvBuilt /\ cfg.kind = "object") =>
    /\ env["SERVICE_REGISTRY_HOST"] = String(host)
    /\ env["SERVICE_REGISTRY_PORT"] = String(port)
    /\ env["SERVICE_REGISTRY_DEBUG"] = String(debug)
    /\ env["PYTHONPATH"] = (IF VarSet("PYTHONPATH")
                            THEN repoRoot \o <<":">> \o startEnv["PYTHONPATH"]
                            ELSE repoRoot)
    /\ PassedThrough("PERPLEXITY_API_KEY", K_perplexityApiKey)
    /\ PassedThrough("PERPLEXITY_MODEL", K_perplexityModel)
    /\ \A x \in (DOMAIN startEnv \cup DOMAIN env)
                 \ (Overlaid \cup {"PERPLEXITY_API_KEY", "PERPLEXITY_MODEL"}) :
         x \in DOMAIN startEnv /\ x \in DOMAIN env /\ env[x] = startEnv[x]

\* C12: a run starts at most one child; a run that ends before a child
\* runs (malformed config, configuration error, interpreter not found) has
\* started none; once the child has ended it is never running again and the
\* launcher goes nowhere but to its exit, and an exited launcher does
\* nothing more.
C12_SingleChildNoRetry ==
  /\ [][(childState' = "running" /\ childState # "running") => childState = "none"]_vars
  /\ [][childState # "none" => childState' # "none"]_vars
  /\ [][(pc # "running" /\ pc' = "exited") => childState' \in {"none", "failed"}]_vars
  /\ [][childState = "dead" => (childState' = "dead" /\ pc' \in {"running", "exited"})]_vars
  /\ [][pc = "exited" => (pc' = "exited" /\ childState' = childState /\ PY_BIN' = PY_BIN)]_vars

C12_Witness ==
  /\ pc = "exited"
  /\ childState = "dead"
  /\ childCode.t = "null"
  /\ exitCode = 0

\* C13: in whatever order signals and the child's end arrive, every
\* SIGINT or SIGTERM received while the child lives has been sent on to it,
\* in order and repeats included; a signal handled after the child has gone
\* changes nothing of the launcher; and the child's end is always followed
\* by the launcher's exit with the child's status (0 for a signal death).
C13_NoEventMissed ==
  /\ [](childState = "running" => childSignals = received)
  /\ [][(received' # received /\ childState = "dead") =>
          UNCHANGED <<pc, exitCode, childSignals, childState, childCode>>]_vars
  /\ (childState = "dead") ~>
       (pc = "exited" /\ exitCode = (IF childCode.t = "null" THEN 0 ELSE childCode.n))

C13_Witness ==
  /\ pc = "exited"
  /\ childState = "dead"
  /\ Len(received) = 2
  /\ Len(childSignals) = 1
  /\ childCode.t = "number"
  /\ exitCode = childCode.n

\* no candidate of the search is an existing regular file
NoInterpreter ==
  \A x \in OverrideCandidate \cup VenvCandidates \cup WellKnown : ~RegularFile(x)

\* C14: the stages run in the order parse, resolve, build environment,
\* spawn: a malformed --config payload with no resolvable interpreter ends
\* the run with status 1, not 127, and at an exit with status 127 the
\* child's environment has not been built and no passthrough assignment has
\* been made.
C14_StageOrder ==
  /\ (ConfigGiven /\ ~JSONparse(ConfigText).ok /\ NoInterpreter /\ pc = "exited")
       => exitCode = 1
  /\ exitCode = 127 => (~EnvBuilt /\ processEnv = startEnv)

\* the candidates in the order of the search
CandidateOrder ==
  (IF "PYTHON_BIN" \in DOMAIN startEnv THEN <<startEnv["PYTHON_BIN"]>> ELSE <<>>)
  \o (IF VarSet("VIRTUAL_ENV")
      THEN <<startEnv["VIRTUAL_ENV"] \o <<"/", "b", "i", "n", "/", "p", "y", "t", "h", "o", "n">>,
             startEnv["VIRTUAL_ENV"] \o <<"/", "b", "i", "n", "/", "p", "y", "t", "h", "o", "n", "3">>>>
      ELSE <<>>)
  \o <<HOMEBREW_PY, USRLOCAL_PY, USRBIN_PY>>

\* positions of CandidateOrder that hold a regular file
ValidPositions == {k \in 1..Len(CandidateOrder) : RegularFile(CandidateOrder[k])}

\* the search has run
Resolved == pc \in {"guard", "running"} \/ SpawnCalled \/ exitCode = 127

\* C15: the resolved interpreter is the earliest candidate, in the order
\* PYTHON_BIN, VIRTUAL_ENV/bin/python, VIRTUAL_ENV/bin/python3,
\* /opt/homebrew/bin/python3, /usr/local/bin/python3, /usr/bin/python3, that
\* is an existing regular file; candidates that fail the check, a set but
\* invalid PYTHON_BIN included, are skipped; with no such candidate nothing
\* is resolved.
C15_EarliestValidCandidate ==
  Resolved =>
    IF ValidPositions = {} THEN ~Truthy(PY_BIN)
    ELSE PY_BIN = Str(CandidateOrder[CHOOSE k \in ValidPositions :
                                       \A m \in ValidPositions : k <= m])

\* python3 is reachable through PATH
OnPath ==
  /\ "PATH" \in DOMAIN startEnv
  /\ RegularFile(startEnv["PATH"] \o <<"/", "p", "y", "t", "h", "o", "n", "3">>)

\* C16: the PATH lookup contributes nothing: a path handed to spawn, or
\* resolved at all, is the value of PYTHON_BIN or one of the five fixed
\* candidates, and a run whose search selects none of them calls no spawn
\* and exits with status 127, also when python3 is reachable through PATH.
C16_PathNeverUsed ==
  /\ (Resolved /\ Truthy(PY_BIN)) =>
       PY_BIN.s \in OverrideCandidate \cup VenvCandidates \cup WellKnown
  /\ (Resolved /\ ~Truthy(PY_BIN)) =>
       /\ ~SpawnCalled
       /\ pc = "exited" => exitCode = 127

C16_Witness ==
  /\ OnPath
  /\ ~Truthy(PY_BIN)
  /\ pc = "exited"
  /\ exitCode = 127

Recognized == {K_host, K_port, K_debug, K_perplexityApiKey, K_perplexityModel}

\* two configs agree on the five fields the launcher knows
Agree(c1, c2) ==
  /\ c1.kind = "object" /\ c2.kind = "object"
  /\ \A k \in Recognized : Get(c1, k) = Get(c2, k)

\* the configs of the other runs this run is compared with
OtherConfigs == {parseConfigArg(ArgvOf(p)).cfg : p \in PassPayloads}

\* what a run with config c, started from this run's environment and file
\* system, builds, selects and exits with when no child gets to run
OtherEnv(c) ==
  buildEnv(passthrough(c, startEnv), hostOf(c, startEnv), portOf(c, startEnv),
           debugOf(c, startEnv))

OtherPython(c) == resolvePY_BIN(passthrough(c, startEnv), fs)

OtherEarlyStatus(c) == IF Truthy(OtherPython(c)) THEN 1 ELSE 127

\* C17: keys of the config other than host, port, debug and the two
\* passthrough fields have no effect: a run builds the child environment,
\* selects the interpreter and, when no child runs, exits with the status
\* that any run does whose config agrees with its own on those five fields
\* and that starts from the same environment and file system.
C17_UnknownKeysIgnored ==
  pc # "parse" =>
    \A c \in OtherConfigs : (Agree(c, cfg) /\ ConfigAccepted) =>
      /\ EnvBuilt => env = OtherEnv(c)
      /\ Resolved => PY_BIN = OtherPython(c)
      /\ (Resolved /\ pc # "guard") => (SpawnCalled <=> Truthy(OtherPython(c)))
      /\ (pc = "exited" /\ childState # "dead") => exitCode = OtherEarlyStatus(c)

C17_Witness ==
  /\ <<"x">> \in DOMAIN cfg.fields
  /\ childState = "running"
  /\ \E c \in OtherConfigs : c # cfg /\ Agree(c, cfg)

OptionAbsent == \A k \in 1..Len(argv) : argv[k] # OPT_config

\* C18: without the --config option the config is empty and nothing fails
\* at parsing: the run goes on to the search and to spawn, host, port and
\* debug come from the environment variables or the defaults, and no
\* passthrough variable is added.
C18_AbsentOptionIsEmptyConfig ==
  OptionAbsent =>
    /\ pc # "parse" => cfg = EmptyConfig
    /\ pc = "exited" => (SpawnCalled \/ exitCode = 127)
    /\ processEnv = startEnv
    /\ EnvBuilt =>
         /\ env["SERVICE_REGISTRY_HOST"] =
              (IF VarSet("SERVICE_REGISTRY_HOST") THEN startEnv["SERVICE_REGISTRY_HOST"]
               ELSE <<"1", "2", "7", ".", "0", ".", "0", ".", "1">>)
         /\ ~VarSet("SERVICE_REGISTRY_PORT") =>
              env["SERVICE_REGISTRY_PORT"] = <<"7", "0", "0", "1">>
         /\ (VarSet("SERVICE_REGISTRY_PORT") /\ AllDigits(startEnv["SERVICE_REGISTRY_PORT"])) =>
              env["SERVICE_REGISTRY_PORT"] = startEnv["SERVICE_REGISTRY_PORT"]
         /\ env["SERVICE_REGISTRY_DEBUG"] =
              (IF VarSet("SERVICE_REGISTRY_DEBUG")
                  /\ toLowerCase(startEnv["SERVICE_REGISTRY_DEBUG"]) = <<"t", "r", "u", "e">>
               THEN <<"t", "r", "u", "e">> ELSE <<"f", "a", "l", "s", "e">>)
         /\ \A name \in {"PERPLEXITY_API_KEY", "PERPLEXITY_MODEL"} :
              IF name \in DOMAIN startEnv
              THEN name \in DOMAIN env /\ env[name] = startEnv[name]
              ELSE name \notin DOMAIN env

C18_Witness ==
  /\ OptionAbsent
  /\ childState = "running"
  /\ VarSet("SERVICE_REGISTRY_HOST")
  /\ ~VarSet("SERVICE_REGISTRY_PORT")
  /\ env["SERVICE_REGISTRY_PORT"] = <<"7", "0", "0", "1">>
  /\ "PERPLEXITY_API_KEY" \notin DOMAIN env

====
